---------------------------- MODULE Spec2Model ----------------------------
(***************************************************************************)
(* The backtest engine of src/src/engine.py with the Order of               *)
(* src/src/models.py and the strategies of src/src/strategies.py.           *)
(*                                                                         *)
(* Python numbers are modelled as exact rationals <<n, d>> in lowest terms  *)
(* (d > 0); a value that is not a number (None) is <<0, 0>>.  Order and     *)
(* position quantities are Python ints and are TLA+ integers.               *)
(***************************************************************************)
EXTENDS Integers, Sequences, FiniteSets, TLC

\* ------------------------------------------------------------------ bounds
\* the length of market_data
MaxTicks == 2

Symbols == {"A", "B"}

\* ------------------------------------------------------- Python arithmetic
RECURSIVE GCD(_, _)
GCD(a, b) == IF b = 0 THEN a ELSE GCD(b, a % b)

Abs(n) == IF n < 0 THEN -n ELSE n

Rat(n, d) == LET g == GCD(Abs(n), d) IN <<n \div g, d \div g>>

None == <<0, 0>>
Zero == <<0, 1>>
IsNum(v) == v[2] > 0

RAdd(a, b) == Rat(a[1] * b[2] + b[1] * a[2], a[2] * b[2])
RSub(a, b) == Rat(a[1] * b[2] - b[1] * a[2], a[2] * b[2])
RMulInt(k, a) == Rat(k * a[1], a[2])
RDivInt(a, k) == Rat(a[1], a[2] * k)
RLess(a, b) == a[1] * b[2] < b[1] * a[2]
RLeq(a, b) == a[1] * b[2] <= b[1] * a[2]

\* int(x): truncation toward zero
IntOf(v) == IF v[1] >= 0 THEN v[1] \div v[2] ELSE -((-v[1]) \div v[2])

RECURSIVE RSum(_)
RSum(s) == IF s = <<>> THEN Zero ELSE RAdd(s[1], RSum(Tail(s)))

\* the last n elements of s: list(s)[-n:]
LastN(s, n) == IF Len(s) <= n THEN s ELSE SubSeq(s, Len(s) - n + 1, Len(s))

\* ------------------------------------------------------------ input values
Timestamps == {1, 2}
Prices == {<<1, 1>>, <<2, 1>>}
Quantities == {<<1, 1>>, <<2, 1>>}

\* MarketDataPoint(timestamp, symbol, price): a frozen dataclass, no validation.
\* "A" is quoted at every price and without one, "B" at one price.
MarketDataPoint ==
    {t \in [timestamp : Timestamps, symbol : Symbols, price : Prices \cup {None}] :
        t.symbol = "B" => t.price = <<1, 1>>}

\* Signal tuples (ACTION, SYMBOL, QTY, PRICE); arity is the tuple's length
Signal(a, s, q, p) == [arity |-> 4, action |-> a, symbol |-> s, qty |-> q, price |-> p]

\* signals an Order refuses (OrderError), and ones Python itself refuses
MalformedSignals ==
    { Signal("HOLD", "A", <<1, 1>>, <<1, 1>>),
      Signal("BUY", "A", Zero, <<1, 1>>),
      Signal("BUY", "A", <<1, 2>>, <<1, 1>>),
      Signal("SELL", "A", <<1, 1>>, Zero),
      Signal("BUY", "A", None, <<1, 1>>),
      [arity |-> 3, action |-> "BUY", symbol |-> "A", qty |-> <<1, 1>>, price |-> None] }

\* signals quoting the tick's symbol and price, as the strategies of the repository do
\* (a tick without a price gives a signal without one)
TickSignals(tick) ==
    {Signal(a, tick.symbol, q, tick.price) : a \in {"BUY", "SELL"}, q \in Quantities}

\* ---------------------------------------------------------------- Strategy
\* Any Strategy subclass: generate_signals may raise, or return any list
AnyStrategy == [kind |-> "ANY", symbol |-> "A", short_window |-> 1, long_window |-> 2]

MovingAverageCrossover(sym, short, long) ==
    [kind |-> "MAC", symbol |-> sym, short_window |-> short, long_window |-> long]

FreshState == [prices |-> <<>>, last_signal |-> "None"]

Outcome(r, v, st) == [raises |-> r, value |-> v, state |-> st]

\* CrossoverSignals without the memory of the last signal: a signal on every tick
\* where the averages differ
CrossoverSignalsRepeats(strat, st, tick) ==
    IF tick.symbol # strat.symbol THEN {Outcome(FALSE, <<>>, st)}
    ELSE
      LET prices == LastN(Append(st.prices, tick.price), strat.long_window)
          st1 == [st EXCEPT !.prices = prices]
      IN  IF Len(prices) < strat.long_window THEN {Outcome(FALSE, <<>>, st1)}
          ELSE IF \E i \in 1..Len(prices) : ~IsNum(prices[i])
               THEN {Outcome(TRUE, <<>>, st1)}
          ELSE
            LET long_ma == RDivInt(RSum(LastN(prices, strat.long_window)), strat.long_window)
                short_ma == RDivInt(RSum(LastN(prices, strat.short_window)), strat.short_window)
            IN  IF RLess(long_ma, short_ma)
                THEN {Outcome(FALSE, <<Signal("BUY", strat.symbol, <<1, 1>>, tick.price)>>,
                              [st1 EXCEPT !.last_signal = "BUY"])}
                ELSE IF RLess(short_ma, long_ma)
                THEN {Outcome(FALSE, <<Signal("SELL", strat.symbol, <<1, 1>>, tick.price)>>,
                              [st1 EXCEPT !.last_signal = "SELL"])}
                ELSE {Outcome(FALSE, <<>>, st1)}

\* MovingAverageCrossover.generate_signals
CrossoverSignals(strat, st, tick) ==
    IF tick.symbol # strat.symbol THEN {Outcome(FALSE, <<>>, st)}
    ELSE
      LET prices == LastN(Append(st.prices, tick.price), strat.long_window)
          st1 == [st EXCEPT !.prices = prices]
      IN  IF Len(prices) < strat.long_window THEN {Outcome(FALSE, <<>>, st1)}
          ELSE IF \E i \in 1..Len(prices) : ~IsNum(prices[i])
               THEN {Outcome(TRUE, <<>>, st1)}
          ELSE
            LET long_ma == RDivInt(RSum(LastN(prices, strat.long_window)), strat.long_window)
                short_ma == RDivInt(RSum(LastN(prices, strat.short_window)), strat.short_window)
            IN  IF RLess(long_ma, short_ma) /\ st.last_signal # "BUY"
                THEN {Outcome(FALSE, <<Signal("BUY", strat.symbol, <<1, 1>>, tick.price)>>,
                              [st1 EXCEPT !.last_signal = "BUY"])}
                ELSE IF RLess(short_ma, long_ma) /\ st.last_signal # "SELL"
                THEN {Outcome(FALSE, <<Signal("SELL", strat.symbol, <<1, 1>>, tick.price)>>,
                              [st1 EXCEPT !.last_signal = "SELL"])}
                ELSE {Outcome(FALSE, <<>>, st1)}

\* Strategy.generate_signals of an arbitrary subclass
ArbitrarySignals(st, tick) ==
    {Outcome(TRUE, <<>>, st), Outcome(FALSE, <<>>, st)}
        \cup {Outcome(FALSE, <<s>>, st) : s \in TickSignals(tick) \cup MalformedSignals}

\* strat.generate_signals(tick): the possible outcomes
GenerateSignals(strat, st, tick) ==
    IF strat.kind = "MAC" THEN CrossoverSignals(strat, st, tick) ELSE ArbitrarySignals(st, tick)

\* ------------------------------------------------------------------- Order
NoOrder ==
    [symbol |-> "A", side |-> "BUY", quantity |-> 0, price |-> Zero,
     status |-> "NONE", filled_quantity |-> 0, fill_price |-> None]

\* Order.__init__: "OrderError", "TypeError" (a comparison of a non-number with 0)
\* or "ok"
OrderInitError(sig) ==
    IF sig.action \notin {"BUY", "SELL"} THEN "OrderError"
    ELSE IF ~IsNum(sig.qty) THEN "TypeError"
    ELSE IF RLeq(sig.qty, Zero) THEN "OrderError"
    ELSE IF ~IsNum(sig.price) THEN "TypeError"
    ELSE IF RLeq(sig.price, Zero) THEN "OrderError"
    ELSE "ok"

OrderInit(sig) ==
    [symbol |-> sig.symbol, side |-> sig.action, quantity |-> IntOf(sig.qty),
     price |-> sig.price, status |-> "NEW", filled_quantity |-> 0, fill_price |-> None]

\* _validate_order that rejects nothing: the constructor's checks alone
ValidateRaisesNever(order) == FALSE

\* Engine._validate_order: TRUE when it raises OrderError
ValidateRaises(order) == order.quantity <= 0 \/ RLeq(order.price, Zero)

\* what "for action, symbol, qty, price in signals" and lines 112-113 do with a signal
ConstructionError(sig) ==
    IF sig.arity # 4 THEN "ValueError"
    ELSE IF OrderInitError(sig) # "ok" THEN OrderInitError(sig)
    ELSE IF ValidateRaises(OrderInit(sig)) THEN "OrderError"
    ELSE "ok"

\* ------------------------------------------------------------------ ledger
NoPositions == [s \in {} |-> 0]

\* self.positions.get(symbol, {"quantity": 0, "avg_price": 0.0})
GetPosition(pos, sym) ==
    IF sym \in DOMAIN pos THEN pos[sym] ELSE [quantity |-> 0, avg_price |-> Zero]

\* self.positions[symbol] = position
SetPosition(pos, sym, p) == [s \in (DOMAIN pos) \cup {sym} |-> IF s = sym THEN p ELSE pos[s]]

Executed(r, o, c, pos) == [raised |-> r, order |-> o, cash |-> c, positions |-> pos]

\* RandomFailure with <= for <: the draw 0.0 fails an order at rate 0
RandomFailureInclusive(u, rate) == RLeq(u, rate)

\* RandomFailure with the comparison turned round: rate < draw
RandomFailureReversed(u, rate) == RLess(rate, u)

\* random.random() < self.execution_failure_rate
RandomFailure(u, rate) == RLess(u, rate)

\* ExecuteBuy with the cash charged the unit price instead of total_cost
ExecuteBuyChargesUnitPrice(order, qty, c, pos) ==
    LET position == GetPosition(pos, order.symbol)
        total_cost == RMulInt(qty, order.price)
        existing_qty == position.quantity
        avg == IF existing_qty = 0 THEN order.price
               ELSE RDivInt(RAdd(RMulInt(existing_qty, position.avg_price), total_cost),
                            existing_qty + qty)
    IN  Executed(FALSE,
                 [order EXCEPT !.status = "FILLED", !.filled_quantity = qty,
                               !.fill_price = order.price],
                 RSub(c, order.price),
                 SetPosition(pos, order.symbol,
                             [quantity |-> existing_qty + qty, avg_price |-> avg]))

\* ExecuteBuy with the average replaced by the price of the last purchase
ExecuteBuyAvgIsLastPrice(order, qty, c, pos) ==
    LET position == GetPosition(pos, order.symbol)
        total_cost == RMulInt(qty, order.price)
    IN  Executed(FALSE,
                 [order EXCEPT !.status = "FILLED", !.filled_quantity = qty,
                               !.fill_price = order.price],
                 RSub(c, total_cost),
                 SetPosition(pos, order.symbol,
                             [quantity |-> position.quantity + qty,
                              avg_price |-> order.price]))

\* ExecuteBuy that refuses a purchase the cash does not cover
ExecuteBuyChecksFunds(order, qty, c, pos) ==
    LET position == GetPosition(pos, order.symbol)
        total_cost == RMulInt(qty, order.price)
        existing_qty == position.quantity
        avg == IF existing_qty = 0 THEN order.price
               ELSE RDivInt(RAdd(RMulInt(existing_qty, position.avg_price), total_cost),
                            existing_qty + qty)
    IN  IF RLess(c, total_cost) THEN Executed(TRUE, order, c, pos)
        ELSE Executed(FALSE,
                      [order EXCEPT !.status = "FILLED", !.filled_quantity = qty,
                                    !.fill_price = order.price],
                      RSub(c, total_cost),
                      SetPosition(pos, order.symbol,
                                  [quantity |-> existing_qty + qty, avg_price |-> avg]))

\* the BUY branch of _execute_order
ExecuteBuy(order, qty, c, pos) ==
    LET position == GetPosition(pos, order.symbol)
        total_cost == RMulInt(qty, order.price)
        existing_qty == position.quantity
        avg == IF existing_qty = 0 THEN order.price
               ELSE RDivInt(RAdd(RMulInt(existing_qty, position.avg_price), total_cost),
                            existing_qty + qty)
    IN  Executed(FALSE,
                 [order EXCEPT !.status = "FILLED", !.filled_quantity = qty,
                               !.fill_price = order.price],
                 RSub(c, total_cost),
                 SetPosition(pos, order.symbol,
                             [quantity |-> existing_qty + qty, avg_price |-> avg]))

\* ExecuteSell without the holdings check
ExecuteSellUnchecked(order, qty, c, pos) ==
    LET position == GetPosition(pos, order.symbol)
        sell_qty == -qty
        left == position.quantity - sell_qty
    IN  Executed(FALSE,
                 [order EXCEPT !.status = "FILLED", !.filled_quantity = sell_qty,
                               !.fill_price = order.price],
                 RAdd(c, RMulInt(sell_qty, order.price)),
                 SetPosition(pos, order.symbol,
                             [quantity |-> left,
                              avg_price |-> IF left = 0 THEN Zero ELSE position.avg_price]))

\* ExecuteSell with the position stored (setdefault) before the holdings check
ExecuteSellStoresBeforeCheck(order, qty, c, pos) ==
    LET position == GetPosition(pos, order.symbol)
        sell_qty == -qty
        existing_qty == position.quantity
        left == existing_qty - sell_qty
    IN  IF sell_qty > existing_qty
        THEN Executed(TRUE, order, c, SetPosition(pos, order.symbol, position))
        ELSE Executed(FALSE,
                      [order EXCEPT !.status = "FILLED", !.filled_quantity = sell_qty,
                                    !.fill_price = order.price],
                      RAdd(c, RMulInt(sell_qty, order.price)),
                      SetPosition(pos, order.symbol,
                                  [quantity |-> left,
                                   avg_price |-> IF left = 0 THEN Zero
                                                 ELSE position.avg_price]))

\* ExecuteSell that keeps the average price of a position sold out
ExecuteSellKeepsAverage(order, qty, c, pos) ==
    LET position == GetPosition(pos, order.symbol)
        sell_qty == -qty
        existing_qty == position.quantity
    IN  IF sell_qty > existing_qty THEN Executed(TRUE, order, c, pos)
        ELSE Executed(FALSE,
                      [order EXCEPT !.status = "FILLED", !.filled_quantity = sell_qty,
                                    !.fill_price = order.price],
                      RAdd(c, RMulInt(sell_qty, order.price)),
                      SetPosition(pos, order.symbol,
                                  [quantity |-> existing_qty - sell_qty,
                                   avg_price |-> position.avg_price]))

\* ExecuteSell recording the signed quantity as filled_quantity
ExecuteSellFillsSignedQty(order, qty, c, pos) ==
    LET position == GetPosition(pos, order.symbol)
        sell_qty == -qty
        existing_qty == position.quantity
        left == existing_qty - sell_qty
    IN  IF sell_qty > existing_qty THEN Executed(TRUE, order, c, pos)
        ELSE Executed(FALSE,
                      [order EXCEPT !.status = "FILLED", !.filled_quantity = qty,
                                    !.fill_price = order.price],
                      RAdd(c, RMulInt(sell_qty, order.price)),
                      SetPosition(pos, order.symbol,
                                  [quantity |-> left,
                                   avg_price |-> IF left = 0 THEN Zero
                                                 ELSE position.avg_price]))

\* the SELL branch of _execute_order
ExecuteSell(order, qty, c, pos) ==
    LET position == GetPosition(pos, order.symbol)
        sell_qty == -qty
        existing_qty == position.quantity
        left == existing_qty - sell_qty
    IN  IF sell_qty > existing_qty THEN Executed(TRUE, order, c, pos)
        ELSE Executed(FALSE,
                      [order EXCEPT !.status = "FILLED", !.filled_quantity = sell_qty,
                                    !.fill_price = order.price],
                      RAdd(c, RMulInt(sell_qty, order.price)),
                      SetPosition(pos, order.symbol,
                                  [quantity |-> left,
                                   avg_price |-> IF left = 0 THEN Zero
                                                 ELSE position.avg_price]))

\* _execute_order with the random failure raised after the ledger was updated
ExecuteOrderFailsAfterFill(order, c, pos, u, rate) ==
    LET qty == IF order.side = "BUY" THEN order.quantity ELSE -order.quantity
        res == IF qty > 0 THEN ExecuteBuy(order, qty, c, pos)
               ELSE ExecuteSell(order, qty, c, pos)
    IN  IF RandomFailure(u, rate) THEN Executed(TRUE, order, res.cash, res.positions)
        ELSE res

\* Engine._execute_order with the draw u of random.random()
ExecuteOrderResult(order, c, pos, u, rate) ==
    IF RandomFailure(u, rate) THEN Executed(TRUE, order, c, pos)
    ELSE LET qty == IF order.side = "BUY" THEN order.quantity ELSE -order.quantity
         IN  IF qty > 0 THEN ExecuteBuy(order, qty, c, pos)
             ELSE ExecuteSell(order, qty, c, pos)

\* Engine._market_value: [raises, value]
RECURSIVE MarketValueLoop(_, _, _, _)
MarketValueLoop(total, pos, syms, tick) ==
    IF syms = {} THEN [raises |-> FALSE, value |-> total]
    ELSE LET sym == CHOOSE s \in syms : TRUE
             qty == pos[sym].quantity
             price == IF sym = tick.symbol THEN tick.price ELSE pos[sym].avg_price
         IN  IF qty = 0 THEN MarketValueLoop(total, pos, syms \ {sym}, tick)
             ELSE IF ~IsNum(price) THEN [raises |-> TRUE, value |-> total]
             ELSE MarketValueLoop(RAdd(total, RMulInt(qty, price)), pos, syms \ {sym}, tick)

\* _market_value with every position priced at the tick's price
RECURSIVE MarketValueAtTickPriceLoop(_, _, _, _)
MarketValueAtTickPriceLoop(total, pos, syms, tick) ==
    IF syms = {} THEN [raises |-> FALSE, value |-> total]
    ELSE LET sym == CHOOSE s \in syms : TRUE
             qty == pos[sym].quantity
         IN  IF qty = 0 THEN MarketValueAtTickPriceLoop(total, pos, syms \ {sym}, tick)
             ELSE IF ~IsNum(tick.price) THEN [raises |-> TRUE, value |-> total]
             ELSE MarketValueAtTickPriceLoop(RAdd(total, RMulInt(qty, tick.price)), pos,
                                             syms \ {sym}, tick)

MarketValueAtTickPrice(c, pos, tick) == MarketValueAtTickPriceLoop(c, pos, DOMAIN pos, tick)

MarketValue(c, pos, tick) == MarketValueLoop(c, pos, DOMAIN pos, tick)

\* lines 123-126: the equity of the snapshot
Equity(c, pos, tick) ==
    IF MarketValue(c, pos, tick).raises THEN c ELSE MarketValue(c, pos, tick).value

\* Engine.summary
LogCap == 20

Summary(ic, c, pos, curve, lg) ==
    [initial_cash |-> ic, final_cash |-> c, positions |-> pos,
     equity_curve_length |-> Len(curve),
     logs |-> IF Len(lg) <= LogCap THEN lg ELSE SubSeq(lg, 1, LogCap)]

\* ------------------------------------------------------------------- state
VARIABLES
    rng,                     \* the process-wide generator: draws taken since random.seed
    tape,                    \* the generator's output after random.seed(rng_seed), as far as drawn
    strategies,              \* Engine.strategies
    strat_state,             \* each strategy's _prices and _last_signal
    initial_cash,            \* Engine.initial_cash
    cash,                    \* Engine.cash
    positions,               \* Engine.positions
    equity_curve,            \* Engine.equity_curve
    logs,                    \* Engine.logs
    execution_failure_rate,  \* Engine.execution_failure_rate
    pc,                      \* where Engine.run stands
    market_data,             \* the argument of Engine.run, as far as iterated
    tick_idx,                \* index of the current tick in market_data
    signals,                 \* run's local list of the tick
    si,                      \* index of the strategy the collecting loop is at
    sg,                      \* index of the signal the processing loop is at
    order,                   \* run's local Order
    caught,                  \* history: the exceptions the except clauses of run caught
    returned,                \* history: what each strategy did on this tick
    orders,                  \* history: the Orders handed to _execute_order, as left by it
    engine_no,               \* which engine of the process the engine variables show
    second_constructed,      \* the second engine was constructed before the first ran
    first_result             \* the first engine's summary and equity curve after its run

globals == <<rng, tape>>
config == <<strategies, initial_cash, execution_failure_rate>>
ledger == <<cash, positions>>
process == <<engine_no, second_constructed, first_result>>
vars == <<rng, tape, strategies, strat_state, initial_cash, cash, positions, equity_curve,
          logs, execution_failure_rate, pc, market_data, tick_idx, signals, si, sg, order,
          caught, returned, orders, engine_no, second_constructed, first_result>>

Tick == market_data[tick_idx]

\* ------------------------------------------------------------ configuration
StrategyLists == {<<AnyStrategy, MovingAverageCrossover("A", 1, 2)>>}
DeterministicStrategyLists == {<<MovingAverageCrossover("A", 1, 2)>>}
InitialCash == {<<3, 1>>}
\* with the rate 1/2 an attempt can fail or pass the random check; 0 never fails
\* it, 1 always
FailureRates == {<<1, 2>>}
AllFailureRates == {Zero, <<1, 2>>, <<1, 1>>}
\* values random.random() can return: [0, 1)
Draws == {Zero, <<1, 2>>}

NoResult == [summary |-> Summary(Zero, Zero, NoPositions, <<>>, <<>>), equity_curve |-> <<>>,
             valid |-> FALSE]

\* Engine.__init__ (and the locals of a run not yet started)
Constructed(strats, rate) ==
    /\ strategies = strats
    /\ strat_state = [i \in 1..Len(strats) |-> FreshState]
    /\ initial_cash \in InitialCash
    /\ cash = initial_cash
    /\ positions = NoPositions
    /\ equity_curve = <<>>
    /\ logs = <<>>
    /\ execution_failure_rate = rate
    /\ rng = 0
    /\ tape = <<>>
    /\ pc = "loop"
    /\ market_data = <<>>
    /\ tick_idx = 0
    /\ signals = <<>>
    /\ si = 1
    /\ sg = 1
    /\ order = NoOrder
    /\ caught = <<>>
    /\ returned = <<>>
    /\ orders = <<>>
    /\ engine_no = 1
    /\ second_constructed = FALSE
    /\ first_result = NoResult

Init == \E strats \in StrategyLists, rate \in FailureRates : Constructed(strats, rate)

\* ------------------------------------------------------------- Engine.run
\* the length of market_data when every strategy is a MovingAverageCrossover, which
\* gives at most one signal per tick
MaxCrossoverTicks == 4
\* the longest market_data of the engine at hand
RunLength ==
    IF \A i \in 1..Len(strategies) : strategies[i].kind = "MAC" THEN MaxCrossoverTicks
    ELSE MaxTicks

\* the ticks "for tick in market_data" can yield next: market_data is sorted by
\* timestamp (data_loader sorts it)
NextTicks ==
    IF tick_idx < Len(market_data) THEN {market_data[tick_idx + 1]}
    ELSE IF engine_no = 1 /\ Len(market_data) < RunLength
         THEN {t \in MarketDataPoint :
                 market_data # <<>> => market_data[Len(market_data)].timestamp <= t.timestamp}
    ELSE {}

\* line 98-100: the next tick, signals = []
NextTick ==
    /\ pc = "loop"
    /\ \E t \in NextTicks :
         market_data' = IF tick_idx < Len(market_data) THEN market_data
                        ELSE Append(market_data, t)
    /\ tick_idx' = tick_idx + 1
    /\ signals' = <<>>
    /\ returned' = <<>>
    /\ si' = 1
    /\ sg' = 1
    /\ pc' = IF Len(strategies) = 0 THEN "equity" ELSE "collect"
    /\ UNCHANGED <<globals, config, strat_state, ledger, equity_curve, logs, order, caught,
                   orders, process>>

\* ExtendSignals with the list of the tick reset when a strategy raises
ExtendSignalsResetOnRaise(sigs, out) == IF out.raises THEN <<>> ELSE sigs \o out.value

\* signals.extend(s) when the strategy returned, nothing when it raised
ExtendSignals(sigs, out) == IF out.raises THEN sigs ELSE sigs \o out.value

\* self.logs.append(...)
LogAppend(lg, entry) == Append(lg, entry)

\* lines 101-107: one strategy of the collecting loop
CollectSignals ==
    /\ pc = "collect"
    /\ \E out \in GenerateSignals(strategies[si], strat_state[si], Tick) :
         /\ signals' = ExtendSignals(signals, out)
         /\ logs' = IF out.raises THEN LogAppend(logs, "Strategy error") ELSE logs
         /\ caught' = IF out.raises THEN Append(caught, "Strategy error") ELSE caught
         /\ strat_state' = [strat_state EXCEPT ![si] = out.state]
         /\ returned' = Append(returned, [raises |-> out.raises, value |-> out.value])
         /\ pc' = IF si < Len(strategies) THEN "collect"
                  ELSE IF signals' = <<>> THEN "equity" ELSE "process"
    /\ si' = si + 1
    /\ UNCHANGED <<globals, config, ledger, equity_curve, market_data, tick_idx, sg, order,
                   orders, process>>

\* AfterSignal of a processing loop that stops after its first signal
AfterSignalStopsEarly == "equity"

\* where the processing loop goes after the signal at sg
AfterSignal == IF sg < Len(signals) THEN "process" ELSE "equity"

\* lines 110-113, 119-120: unpack the signal, construct and validate the Order
ConstructOrder ==
    /\ pc = "process"
    /\ LET sig == signals[sg]
           err == ConstructionError(sig)
           constructed == sig.arity = 4 /\ OrderInitError(sig) = "ok"
       IN  /\ order' = IF constructed THEN OrderInit(sig) ELSE order
           /\ logs' = IF err = "OrderError" THEN LogAppend(logs, "OrderError") ELSE logs
           /\ caught' = IF err = "OrderError" THEN Append(caught, "OrderError") ELSE caught
           /\ pc' = CASE err = "ok" -> "execute"
                      [] err = "OrderError" -> AfterSignal
                      [] OTHER -> "raised"
           /\ sg' = IF err = "OrderError" THEN sg + 1 ELSE sg
    /\ UNCHANGED <<globals, config, strat_state, ledger, equity_curve, market_data, tick_idx,
                   signals, si, returned, orders, process>>

\* AdvanceRng of a check that skips random.random() when the rate is 0
AdvanceRngUnlessRateZero(n, rate) == IF rate = Zero THEN n ELSE n + 1

\* random.random() of line 40 advances the generator by one draw, whatever the rate
AdvanceRng(n, rate) == n + 1

\* the values the next random.random() can return
NextDraws == IF rng < Len(tape) THEN {tape[rng + 1]} ELSE Draws

\* lines 114-118: _execute_order, and the ExecutionError handler
ExecuteOrder ==
    /\ pc = "execute"
    /\ \E u \in NextDraws :
         LET res == ExecuteOrderResult(order, cash, positions, u, execution_failure_rate)
             done == IF res.raised THEN [res.order EXCEPT !.status = "FAILED"] ELSE res.order
         IN  /\ tape' = IF rng < Len(tape) THEN tape ELSE Append(tape, u)
             /\ rng' = AdvanceRng(rng, execution_failure_rate)
             /\ cash' = res.cash
             /\ positions' = res.positions
             /\ order' = done
             /\ orders' = Append(orders, done)
             /\ logs' = IF res.raised THEN LogAppend(logs, "ExecutionError") ELSE logs
             /\ caught' = IF res.raised THEN Append(caught, "ExecutionError") ELSE caught
    /\ pc' = AfterSignal
    /\ sg' = sg + 1
    /\ UNCHANGED <<config, strat_state, equity_curve, market_data, tick_idx, signals, si,
                   returned, process>>

\* AppendEquity keyed by timestamp: a tick with the timestamp of the last sample
\* replaces that sample
AppendEquityKeyedByTime(curve, tick, equity) ==
    IF curve # <<>> /\ curve[Len(curve)][1] = tick.timestamp
    THEN [curve EXCEPT ![Len(curve)] = <<tick.timestamp, equity>>]
    ELSE Append(curve, <<tick.timestamp, equity>>)

\* self.equity_curve.append((tick.timestamp, equity))
AppendEquity(curve, tick, equity) == Append(curve, <<tick.timestamp, equity>>)

\* lines 122-127: the equity snapshot of the tick
RecordEquity ==
    /\ pc = "equity"
    /\ equity_curve' = AppendEquity(equity_curve, Tick, Equity(cash, positions, Tick))
    /\ caught' = IF MarketValue(cash, positions, Tick).raises
                 THEN Append(caught, "Equity error") ELSE caught
    /\ pc' = "loop"
    /\ UNCHANGED <<globals, config, strat_state, ledger, logs, market_data, tick_idx, signals,
                   si, sg, order, returned, orders, process>>

\* the for loop over market_data is exhausted: run returns
RunReturn ==
    /\ pc = "loop"
    /\ tick_idx = Len(market_data)
    /\ pc' = "done"
    /\ UNCHANGED <<globals, config, strat_state, ledger, equity_curve, logs, market_data,
                   tick_idx, signals, si, sg, order, caught, returned, orders, process>>

Next == NextTick \/ CollectSignals \/ ConstructOrder \/ ExecuteOrder \/ RecordEquity \/ RunReturn

Spec == Init /\ [][Next]_vars

\* ------------------------------------------------- two engines, one process
\* The process constructs a second engine with the same arguments and fresh
\* strategies, and runs it over the same market_data after the first engine's
\* run.  A constructed engine keeps the values of __init__ until its run starts,
\* so the engine variables show the first engine until then, the second after.
Result == [summary |-> Summary(initial_cash, cash, positions, equity_curve, logs),
           equity_curve |-> equity_curve, valid |-> TRUE]

\* Engine.__init__ of the second engine, before the first engine runs:
\* random.seed(rng_seed) reseeds the generator of the process
ConstructSecondEarly ==
    /\ engine_no = 1
    /\ pc = "loop"
    /\ tick_idx = 0
    /\ ~second_constructed
    /\ second_constructed' = TRUE
    /\ rng' = 0
    /\ UNCHANGED <<tape, config, strat_state, ledger, equity_curve, logs, pc, market_data,
                   tick_idx, signals, si, sg, order, caught, returned, orders, engine_no,
                   first_result>>

\* the second engine (constructed now unless it was before) starts its run
RunSecond ==
    /\ engine_no = 1
    /\ pc = "done"
    /\ first_result' = Result
    /\ engine_no' = 2
    /\ rng' = IF second_constructed THEN rng ELSE 0
    /\ strat_state' = [i \in 1..Len(strategies) |-> FreshState]
    /\ cash' = initial_cash
    /\ positions' = NoPositions
    /\ equity_curve' = <<>>
    /\ logs' = <<>>
    /\ pc' = "loop"
    /\ tick_idx' = 0
    /\ signals' = <<>>
    /\ si' = 1
    /\ sg' = 1
    /\ order' = NoOrder
    /\ caught' = <<>>
    /\ returned' = <<>>
    /\ orders' = <<>>
    /\ UNCHANGED <<tape, config, market_data, second_constructed>>

InitTwoRuns ==
    \E strats \in DeterministicStrategyLists, rate \in AllFailureRates : Constructed(strats, rate)

NextTwoRuns == Next \/ ConstructSecondEarly \/ RunSecond

SpecTwoRuns == InitTwoRuns /\ [][NextTwoRuns]_vars

\* ------------------------------------------- execution_failure_rate = 0
\* the engine of Spec constructed with execution_failure_rate 0.0
InitNoFailures == \E strats \in StrategyLists : Constructed(strats, Zero)
SpecNoFailures == InitNoFailures /\ [][Next]_vars

\* ------------------------------- the engine with one crossover strategy
\* Engine([MovingAverageCrossover("A", 1, 2)], ...) with and without failures
InitCrossoverEngine ==
    \E strats \in DeterministicStrategyLists, rate \in {Zero, <<1, 2>>} :
        Constructed(strats, rate)
SpecCrossoverEngine == InitCrossoverEngine /\ [][Next]_vars

\* ------------------------------------- MovingAverageCrossover on its own
\* generate_signals called tick after tick on one strategy object: market_data holds
\* the ticks fed so far, returned what each call returned
\* the number of ticks fed
MaxFeed == 5
\* the prices fed are 1..MaxFeedPrice
MaxFeedPrice == 5
\* (short_window, long_window) of the strategy: __init__ refuses short >= long
Windows == {<<1, 2>>, <<1, 3>>, <<2, 3>>}
CrossoverLists == {<<MovingAverageCrossover("A", w[1], w[2])>> : w \in Windows}
FeedTicks ==
    {[timestamp |-> Len(market_data) + 1, symbol |-> "A", price |-> <<n, 1>>] :
        n \in 1..MaxFeedPrice}
      \cup {[timestamp |-> Len(market_data) + 1, symbol |-> "B", price |-> <<1, 1>>]}

InitCrossover == \E strats \in CrossoverLists : Constructed(strats, Zero)

\* one call strategy.generate_signals(tick)
FeedTick ==
    /\ Len(market_data) < MaxFeed
    /\ \E t \in FeedTicks :
         \E out \in GenerateSignals(strategies[1], strat_state[1], t) :
            /\ market_data' = Append(market_data, t)
            /\ strat_state' = [strat_state EXCEPT ![1] = out.state]
            /\ returned' = Append(returned, [raises |-> out.raises, value |-> out.value])
    /\ UNCHANGED <<globals, config, ledger, equity_curve, logs, pc, tick_idx, signals, si, sg,
                   order, caught, orders, process>>

NextCrossover == FeedTick
SpecCrossover == InitCrossover /\ [][NextCrossover]_vars

\* ------------------------------------------------------------------ claims
KindsCaught == {caught[i] : i \in 1..Len(caught)}
Statuses(side) == {orders[i].status : i \in {j \in 1..Len(orders) : orders[j].side = side}}

\* C1: when run has returned, the equity curve has one entry per tick of
\* market_data and the i-th entry carries the i-th tick's timestamp.
EquityCurveFollowsTicks ==
    pc = "done" =>
        /\ Len(equity_curve) = Len(market_data)
        /\ \A i \in 1..Len(market_data) : equity_curve[i][1] = market_data[i].timestamp

\* a finished run of MaxTicks ticks, two with one timestamp, in which a strategy
\* raised, an OrderError and an ExecutionError occurred
EquityCurveFollowsTicksWitness ==
    /\ pc = "done"
    /\ Len(market_data) = MaxTicks
    /\ market_data[1].timestamp = market_data[2].timestamp
    /\ {"Strategy error", "OrderError", "ExecutionError"} \subseteq KindsCaught

\* C2: initial_cash - cash is the sum over the FILLED orders of quantity * price,
\* counted positive for a BUY and negative for a SELL; FAILED orders and rejected
\* signals add nothing.
RECURSIVE NetFilledFlow(_)
NetFilledFlow(os) ==
    IF os = <<>> THEN Zero
    ELSE LET o == os[1]
             amount == RMulInt(o.quantity, o.price)
         IN  IF o.status # "FILLED" THEN NetFilledFlow(Tail(os))
             ELSE IF o.side = "BUY" THEN RAdd(NetFilledFlow(Tail(os)), amount)
             ELSE RSub(NetFilledFlow(Tail(os)), amount)

CashConservation == RSub(initial_cash, cash) = NetFilledFlow(orders)

\* a filled BUY, a filled SELL and a failed order have happened
CashConservationWitness ==
    /\ "FILLED" \in Statuses("BUY")
    /\ "FILLED" \in Statuses("SELL")
    /\ \E i \in 1..Len(orders) : orders[i].status = "FAILED"
    /\ cash # initial_cash

\* C3: no position quantity is ever negative.
NoShortPosition == \A s \in DOMAIN positions : positions[s].quantity >= 0

\* a SELL that passed the random check was refused for lack of holdings while a
\* position was held, and another SELL filled
NoShortPositionWitness ==
    /\ engine_no = 1
    /\ "FILLED" \in Statuses("SELL")
    /\ \E i \in 1..Len(orders) :
         /\ orders[i].side = "SELL"
         /\ orders[i].status = "FAILED"
         /\ ~RandomFailure(tape[i], execution_failure_rate)
    /\ \E s \in DOMAIN positions : positions[s].quantity > 0

\* C4: executing a SELL for more than is held of its symbol fails with
\* ExecutionError (the order is FAILED and logged) and leaves cash, the symbol's
\* quantity and the set of position entries as they were.
OversellRejected ==
    [][(pc = "execute" /\ order.side = "SELL"
          /\ order.quantity > GetPosition(positions, order.symbol).quantity)
       => /\ order'.status = "FAILED"
          /\ logs' = Append(logs, "ExecutionError")
          /\ cash' = cash
          /\ DOMAIN positions' = DOMAIN positions
          /\ GetPosition(positions', order.symbol).quantity
               = GetPosition(positions, order.symbol).quantity]_vars

\* a SELL of a never-traded symbol was refused although the random check passed
OversellRejectedWitness ==
    /\ rng > 0
    /\ ~RandomFailure(tape[rng], execution_failure_rate)
    /\ order.status = "FAILED"
    /\ order.side = "SELL"
    /\ order.symbol \notin DOMAIN positions
    /\ positions # NoPositions

\* C5: an execution attempt that ends in ExecutionError leaves cash and all
\* positions as before it, leaves the order FAILED with filled_quantity 0 and no
\* fill_price, and run goes on with the next signal of the tick.
FailedAttemptLeavesLedger ==
    [][(pc = "execute" /\ order'.status = "FAILED")
       => /\ cash' = cash
          /\ positions' = positions
          /\ order'.filled_quantity = 0
          /\ order'.fill_price = None
          /\ sg' = sg + 1
          /\ pc' = IF sg' <= Len(signals) THEN "process" ELSE "equity"]_vars

\* a BUY failed by the random check while a position was held, and run stands at
\* the next signal of the tick
FailedAttemptLeavesLedgerWitness ==
    /\ order.status = "FAILED"
    /\ order.side = "BUY"
    /\ \E s \in DOMAIN positions : positions[s].quantity > 0
    /\ pc = "process"
    /\ sg = 2

\* C6: the second engine, constructed with the same arguments and fresh
\* strategies and run over the same ticks, ends with the summary and equity
\* curve of the first, whenever it was constructed.
RunsAreDeterministic == (engine_no = 2 /\ pc = "done") => Result = first_result

\* C7: no exception leaves Engine.run while a tick is processed.
NothingPropagates == pc # "raised"

\* C8: when run has returned, the log holds one entry for each exception the except
\* clauses of the loop caught, in the order they occurred.
EveryCaughtErrorLogged == pc = "done" => logs = caught

\* C9: the combined signal list is what the strategies that returned have
\* returned, in strategy order, whatever strategy raised; each raise is logged;
\* and a processed tick has its equity sample.
RECURSIVE Returned(_)
Returned(rs) ==
    IF rs = <<>> THEN <<>>
    ELSE IF rs[1].raises THEN Returned(Tail(rs)) ELSE rs[1].value \o Returned(Tail(rs))

Raises(rs) == Cardinality({i \in 1..Len(rs) : rs[i].raises})

StrategyFailureIsolated ==
    /\ signals = Returned(returned)
    /\ Raises(returned) <= Cardinality({i \in 1..Len(logs) : logs[i] = "Strategy error"})
    /\ pc = "loop" => Len(equity_curve) = tick_idx

\* a tick is over on which one strategy raised and another returned a signal
StrategyFailureIsolatedWitness ==
    /\ pc = "loop"
    /\ tick_idx > 0
    /\ Len(equity_curve) = tick_idx
    /\ \E i, j \in 1..Len(returned) : returned[i].raises /\ returned[j].value # <<>>

\* C10: the sample of a tick is cash plus, over the positions held after the
\* tick's signals, quantity times the reference price: the tick's price for the
\* tick's symbol, the stored avg_price for any other.
ReferencePrice(sym, tick) ==
    IF sym = tick.symbol THEN tick.price ELSE positions[sym].avg_price

Held == {s \in DOMAIN positions : positions[s].quantity # 0}

RECURSIVE HeldValue(_, _)
HeldValue(syms, tick) ==
    IF syms = {} THEN Zero
    ELSE LET s == CHOOSE x \in syms : TRUE
         IN  RAdd(RMulInt(positions[s].quantity, ReferencePrice(s, tick)),
                  HeldValue(syms \ {s}, tick))

Priced(tick) == \A s \in Held : IsNum(ReferencePrice(s, tick))

SampleTaken == pc \in {"loop", "done"} /\ tick_idx > 0

LastSample == equity_curve[Len(equity_curve)]

\* C10 as claimed: every sample is that sum
EquityIsMarkToMarket ==
    SampleTaken =>
        /\ Len(equity_curve) = tick_idx
        /\ Priced(Tick)
        /\ LastSample[2] = RAdd(cash, HeldValue(Held, Tick))

\* C10 as amended: the sample is that sum, or the cash when the sum cannot be
\* computed (the tick has no price and its symbol is held)
EquityIsMarkToMarketOrCash ==
    SampleTaken =>
        /\ Len(equity_curve) = tick_idx
        /\ LastSample[2] = IF Priced(Tick) THEN RAdd(cash, HeldValue(Held, Tick)) ELSE cash

\* a sample was taken with the tick's symbol and another symbol held, the other
\* at an avg_price that is not the tick's price
EquityIsMarkToMarketOrCashWitness ==
    /\ SampleTaken
    /\ Priced(Tick)
    /\ Tick.symbol \in Held
    /\ \E s \in Held : s # Tick.symbol /\ positions[s].avg_price # Tick.price


\* the number v is the fraction n / d
IsQuotient(v, n, d) == IsNum(v) /\ v[1] * d = n * v[2]

\* the step fills the BUY order under execution
BuyFilled == pc = "execute" /\ order.side = "BUY" /\ order'.status = "FILLED"

\* the example of the claim: cash 100000, BUY 10 at 50 on no position
BuyExample ==
    LET o == [symbol |-> "A", side |-> "BUY", quantity |-> 10, price |-> <<50, 1>>,
              status |-> "NEW", filled_quantity |-> 0, fill_price |-> None]
        res == ExecuteOrderResult(o, <<100000, 1>>, NoPositions, Zero, Zero)
    IN  /\ ~res.raised
        /\ res.cash = <<99500, 1>>
        /\ res.positions = SetPosition(NoPositions, "A",
                                       [quantity |-> 10, avg_price |-> <<50, 1>>])

\* C11: a step that fills a BUY of q at p on a position (Q, A) leaves the quantity
\* Q + q, the average price p when Q = 0 and (Q*A + q*p) / (Q + q) otherwise, the
\* cash lower by q*p, the other positions as they were, and the order FILLED with
\* filled_quantity q and fill_price p; the example of the claim evaluates so.
BuyFillsAtWeightedAverage ==
    [][BuyFilled =>
        LET q == order.quantity
            p == order.price
            Q == GetPosition(positions, order.symbol).quantity
            A == GetPosition(positions, order.symbol).avg_price
            after == positions'[order.symbol]
        IN  /\ BuyExample
            /\ DOMAIN positions' = DOMAIN positions \cup {order.symbol}
            /\ \A s \in DOMAIN positions : s # order.symbol => positions'[s] = positions[s]
            /\ after.quantity = Q + q
            /\ IF Q = 0 THEN after.avg_price = p
               ELSE IsQuotient(after.avg_price, Q * A[1] * p[2] + q * p[1] * A[2],
                               (Q + q) * A[2] * p[2])
            /\ IsQuotient(cash', cash[1] * p[2] - q * p[1] * cash[2], cash[2] * p[2])
            /\ order' = [order EXCEPT !.status = "FILLED", !.filled_quantity = q,
                                      !.fill_price = p]]_vars

\* a BUY was filled on a position held at another average price
BuyFillsAtWeightedAverageWitness ==
    /\ order.status = "FILLED" /\ order.side = "BUY"
    /\ order.symbol \in DOMAIN positions
    /\ positions[order.symbol].quantity > order.filled_quantity
    /\ positions[order.symbol].avg_price # order.fill_price
    /\ positions[order.symbol].avg_price[2] > 1

\* the step fills the SELL order under execution
SellFilled == pc = "execute" /\ order.side = "SELL" /\ order'.status = "FILLED"

\* C12: a step that fills a SELL of q at p on a position (Q, A) has q <= Q and leaves
\* the quantity Q - q, the cash higher by q*p, the average price 0 when Q - q = 0 and
\* A otherwise, and the other positions as they were; after every step each position
\* of quantity 0 has the average price 0, and no step removes a position entry.
SellReducesPosition ==
    [][/\ SellFilled =>
            LET q == order.quantity
                p == order.price
                Q == GetPosition(positions, order.symbol).quantity
                A == GetPosition(positions, order.symbol).avg_price
                after == positions'[order.symbol]
            IN  /\ q <= Q
                /\ DOMAIN positions' = DOMAIN positions
                /\ \A s \in DOMAIN positions :
                       s # order.symbol => positions'[s] = positions[s]
                /\ after.quantity = Q - q
                /\ after.avg_price = IF Q - q = 0 THEN Zero ELSE A
                /\ IsQuotient(cash', cash[1] * p[2] + q * p[1] * cash[2], cash[2] * p[2])
       /\ \A s \in DOMAIN positions' :
              positions'[s].quantity = 0 => positions'[s].avg_price = Zero
       /\ DOMAIN positions \subseteq DOMAIN positions']_vars

\* a SELL was filled that sold its position out, while another order bought before
SellReducesPositionWitness ==
    /\ order.status = "FILLED" /\ order.side = "SELL"
    /\ positions[order.symbol] = [quantity |-> 0, avg_price |-> Zero]
    /\ \E i \in 1..Len(orders) : orders[i].side = "BUY" /\ orders[i].status = "FILLED"
                                  /\ orders[i].price # Zero

\* the ticks fed that carry the strategy's symbol, and the rank of one among them
OwnTicks == {i \in 1..Len(market_data) : market_data[i].symbol = strategies[1].symbol}
Rank(i) == Cardinality({j \in OwnTicks : j <= i})
StrictlyIncreasing ==
    \A i, j \in OwnTicks : i < j => RLess(market_data[i].price, market_data[j].price)

\* C13: while the prices fed for the strategy's symbol are strictly increasing, no call
\* raises, the call on the long_window-th tick of the symbol returns one BUY of
\* quantity 1 at that tick's price, and every other call returns the empty list.
IncreasingPricesGiveOneBuy ==
    StrictlyIncreasing =>
        \A i \in 1..Len(returned) :
            /\ ~returned[i].raises
            /\ returned[i].value =
                 IF i \in OwnTicks /\ Rank(i) = strategies[1].long_window
                 THEN <<Signal("BUY", strategies[1].symbol, <<1, 1>>, market_data[i].price)>>
                 ELSE <<>>

\* strictly increasing prices went on for two ticks after the window filled, with a
\* tick of another symbol among them
IncreasingPricesGiveOneBuyWitness ==
    /\ StrictlyIncreasing
    /\ Len(returned) = Len(market_data)
    /\ Cardinality(OwnTicks) >= strategies[1].long_window + 2
    /\ OwnTicks # 1..Len(market_data)
    /\ strat_state[1].last_signal = "BUY"

\* C14: with execution_failure_rate 0, a step that leaves the order under execution
\* FAILED executes a SELL of more than is held of its symbol at that moment.
OnlyOversellFailsAtRateZero ==
    [][(execution_failure_rate = Zero /\ pc = "execute" /\ order'.status = "FAILED") =>
          /\ order.side = "SELL"
          /\ order.quantity > GetPosition(positions, order.symbol).quantity]_vars

\* at rate 0 a SELL failed on the draw 0.0 after another order was filled
OnlyOversellFailsAtRateZeroWitness ==
    /\ execution_failure_rate = Zero
    /\ order.status = "FAILED"
    /\ rng > 1 /\ tape[rng] = Zero
    /\ \E i \in 1..Len(orders) : orders[i].status = "FILLED"

\* s is a prefix of t
IsPrefix(s, t) == Len(s) <= Len(t) /\ \A i \in 1..Len(s) : s[i] = t[i]

\* C15 as claimed: every Order constructed has its status changed: once the loop has
\* moved on from an order, the order is FILLED or FAILED
EveryOrderSettles == order.status = "NEW" => pc = "execute"

\* C15 as amended: the order variable changes only by a construction, which binds an
\* Order with status NEW, no fill and no fill price, or by the execution attempt, which
\* changes the status of a NEW order to FILLED or FAILED and nothing else but the fill;
\* an order is left NEW only when _validate_order rejected it; the orders attempted
\* keep their records, each FILLED or FAILED, and a FILLED one has filled_quantity =
\* quantity and fill_price = price.
OrderLifecycle ==
    [][/\ order' # order =>
            \/ /\ pc = "process"
               /\ order'.status = "NEW" /\ order'.filled_quantity = 0
               /\ order'.fill_price = None
            \/ /\ pc = "execute"
               /\ order.status = "NEW" /\ order'.status \in {"FILLED", "FAILED"}
               /\ order'.symbol = order.symbol /\ order'.side = order.side
               /\ order'.quantity = order.quantity /\ order'.price = order.price
       /\ pc = "execute" => order' # order /\ orders' = Append(orders, order')
       /\ (order'.status = "NEW" /\ pc' # "execute") => ValidateRaises(order')
       /\ IsPrefix(orders, orders')
       /\ \A i \in 1..Len(orders') :
            /\ orders'[i].status \in {"FILLED", "FAILED"}
            /\ orders'[i].status = "FILLED" =>
                 /\ orders'[i].filled_quantity = orders'[i].quantity
                 /\ orders'[i].fill_price = orders'[i].price
            /\ orders'[i].status = "FAILED" =>
                 /\ orders'[i].filled_quantity = 0
                 /\ orders'[i].fill_price = None]_vars

\* an Order constructed and rejected by _validate_order is left NEW after another
\* order was filled
OrderLifecycleWitness ==
    /\ order.status = "NEW" /\ pc # "execute" /\ ValidateRaises(order)
    /\ \E i \in 1..Len(orders) :
          /\ orders[i].status = "FILLED"
          /\ orders[i].filled_quantity = 2

\* the Order fields the signal sig gives
BuiltFrom(o, sig) ==
    /\ o.symbol = sig.symbol /\ o.side = sig.action
    /\ o.quantity = IntOf(sig.qty) /\ o.price = sig.price

\* C16: within a tick, a strategy is called only while no signal of the tick has been
\* processed, and the calls go through the list in order, one call per strategy; an
\* order is executed only after the last strategy was called, the orders are executed
\* one per step from the signals in the order of the combined list, and the equity
\* sample is appended only when every signal of the tick has been processed.
TickIsOrdered ==
    [][/\ returned' # returned /\ returned' # <<>> =>
            /\ pc = "collect" /\ sg = 1 /\ sg' = 1
            /\ Len(returned) < Len(strategies)
            /\ \E out \in GenerateSignals(strategies[Len(returned) + 1],
                                          strat_state[Len(returned) + 1], Tick) :
                  /\ returned' = Append(returned, [raises |-> out.raises, value |-> out.value])
                  /\ strat_state' = [strat_state EXCEPT ![Len(returned) + 1] = out.state]
            /\ orders' = orders /\ equity_curve' = equity_curve
       /\ strat_state' # strat_state => returned' # returned
       /\ orders' # orders =>
            /\ Len(returned) = Len(strategies) /\ returned' = returned
            /\ signals' = signals /\ sg \in 1..Len(signals)
            /\ \E o \in {orders'[Len(orders')]} :
                  orders' = Append(orders, o) /\ BuiltFrom(o, signals[sg])
            /\ sg' = sg + 1
            /\ equity_curve' = equity_curve
       /\ sg' # sg => sg' = sg + 1 \/ (sg' = 1 /\ pc = "loop")
       /\ equity_curve' # equity_curve =>
            /\ Len(equity_curve') = Len(equity_curve) + 1
            /\ Len(returned) = Len(strategies)
            /\ sg = Len(signals) + 1
            /\ orders' = orders]_vars

\* the sample of a tick is due after both strategies gave a signal and both orders
\* were executed
TickIsOrderedWitness ==
    /\ pc = "equity" /\ Len(returned) = 2
    /\ Len(signals) = 2 /\ sg = 3
    /\ Len(orders) >= 2
    /\ BuiltFrom(orders[Len(orders) - 1], signals[1])
    /\ BuiltFrom(orders[Len(orders)], signals[2])
    /\ signals[1].action # signals[2].action

\* the signal asks for a side other than BUY and SELL, for a quantity that is not
\* positive once converted to an integer, or for a price that is not positive
Defective(sig) ==
    \/ sig.action \notin {"BUY", "SELL"}
    \/ IsNum(sig.qty) /\ IntOf(sig.qty) <= 0
    \/ IsNum(sig.price) /\ RLeq(sig.price, Zero)
Sound(o) == o.side \in {"BUY", "SELL"} /\ o.quantity > 0 /\ RLess(Zero, o.price)

\* C17: an order that awaits its execution attempt, and every order ever attempted,
\* has side BUY or SELL, a positive quantity and a positive price; the step that
\* processes a defective signal appends the one log entry OrderError, leaves cash,
\* positions, the generator and the orders attempted as they were, and goes on to the
\* next signal of the tick, or to the equity sample after the last.
DefectiveSignalRejected ==
    [][/\ pc' = "execute" => Sound(order')
       /\ \A i \in 1..Len(orders') : Sound(orders'[i])
       /\ (pc = "process" /\ Defective(signals[sg])) =>
            /\ logs' = Append(logs, "OrderError")
            /\ cash' = cash /\ positions' = positions
            /\ rng' = rng /\ tape' = tape
            /\ orders' = orders /\ equity_curve' = equity_curve
            /\ signals' = signals /\ sg' = sg + 1
            /\ pc' = IF sg < Len(signals) THEN "process" ELSE "equity"]_vars

\* the second validation rejected a signal the constructor had accepted (quantity
\* 1/2, converted to 0), after an order was attempted and before the next signal
DefectiveSignalRejectedWitness ==
    /\ pc = "process" /\ sg = 2
    /\ Defective(signals[1]) /\ OrderInitError(signals[1]) = "ok"
    /\ order = OrderInit(signals[1])
    /\ logs # <<>> /\ logs[Len(logs)] = "OrderError"
    /\ rng > 0

\* C18: the generator advances by one draw on each step that attempts an order, an
\* oversell at rate 0 included, and on no other step: not when a signal is rejected,
\* a strategy is called or the equity is sampled; the draws taken are as many as the
\* orders attempted, the k-th draw deciding the k-th order before its side and the
\* holdings are looked at.
OneDrawPerAttempt ==
    [][/\ rng' = IF pc = "execute" THEN rng + 1 ELSE rng
       /\ pc = "execute" => Len(orders') = Len(orders) + 1
       /\ rng' = Len(orders') /\ Len(tape') = rng'
       /\ (pc = "execute" /\ RandomFailure(tape'[rng'], execution_failure_rate)) =>
              order'.status = "FAILED"]_vars

\* at rate 0 a SELL of a symbol never held took the second draw, after a signal was
\* rejected without a draw
OneDrawPerAttemptWitness ==
    /\ execution_failure_rate = Zero
    /\ order.status = "FAILED" /\ order.side = "SELL"
    /\ order.symbol \notin DOMAIN positions
    /\ rng = 2 /\ Len(orders) = 2
    /\ \E i \in 1..Len(logs) : logs[i] = "OrderError"

\* C19: a step that executes a BUY whose draw is not below the failure rate fills it
\* and takes quantity * price from the cash, whether or not the cash covers it.
BuyFillsWhateverTheCash ==
    [][(/\ pc = "execute" /\ order.side = "BUY"
        /\ ~RandomFailure(tape'[rng'], execution_failure_rate)) =>
          /\ order'.status = "FILLED"
          /\ cash' = RSub(cash, RMulInt(order.quantity, order.price))
          /\ positions'[order.symbol].quantity =
                GetPosition(positions, order.symbol).quantity + order.quantity]_vars

\* a BUY was filled that cost more than the cash at hand: the cash is negative
BuyFillsWhateverTheCashWitness ==
    /\ order.status = "FILLED" /\ order.side = "BUY"
    /\ RLess(cash, Zero)
    /\ RLess(RAdd(cash, RMulInt(order.filled_quantity, order.fill_price)),
             RMulInt(order.filled_quantity, order.fill_price))

CrossoverHoldsAtMostOneAtAnyRate ==
    \A s \in DOMAIN positions : positions[s].quantity \in {0, 1}
=============================================================================
